---- MODULE Spec2Model ----
(***************************************************************************)
(* Model of generate_surface_meshes.py (BiventricularSSM): the sampler,    *)
(* the reconstruction, pointcloud2surface and the orchestration            *)
(* generate_synthetic_mesh, as a state machine.                            *)
(*                                                                         *)
(* Reals are fixed-point integers in units of 1/Scale.  A numpy array is   *)
(* a record [shape, data] with data in row-major order.  The process-wide  *)
(* numpy random state is the variable rng; a draw is a function of it.     *)
(* The input folder, when it exists, holds SSM.h5 and mean_shape.vtk, and  *)
(* os.mkdir of the output folder succeeds (its parent exists).             *)
(***************************************************************************)
EXTENDS Integers, Sequences, FiniteSets, TLC

\* ------------------------------------------------------------- bounds
Scale == 2
MaxDraw == 6
MaxSeed == 2
MaxSamples == 2
TemplateVertices == 2
SmallModelComponents == 2
MaxDirectCalls == 2

\* ------------------------------------------------- program constants
ComponentLimit == 95
BoundaryLimit == 5
Unbounded == -1
Dim == 3
LogBase == 10

Real(x) == x * Scale

\* ------------------------------------------------------ number helpers
Min(a, b) == IF a < b THEN a ELSE b

\* np.sqrt on the variances the model files hold (perfect squares).
RECURSIVE SqrtFrom(_, _)
SqrtFrom(x, r) == IF (r + 1) * (r + 1) > x THEN r ELSE SqrtFrom(x, r + 1)

Sqrt(x) == SqrtFrom(x, 0)

\* np.clip(x, lo, hi) on one entry: minimum(maximum(x, lo), hi).
Clip(x, lo, hi) == LET m == IF x < lo THEN lo ELSE x IN IF m > hi THEN hi ELSE m

RECURSIVE SumTo(_, _)
SumTo(f, n) == IF n = 0 THEN 0 ELSE f[n] + SumTo(f, n - 1)

\* ------------------------------------------------- str, zfill, log
DigitChar == <<"0", "1", "2", "3", "4", "5", "6", "7", "8", "9">>

\* str(i) for i >= 0, as the sequence of its decimal digits.
RECURSIVE StrDigits(_)
StrDigits(i) == IF i < LogBase THEN <<i>> ELSE Append(StrDigits(i \div LogBase), i % LogBase)

\* s.zfill(width): zeros on the left up to width, never a truncation.
RECURSIVE Zfill(_, _)
Zfill(s, width) == IF Len(s) >= width THEN s ELSE Zfill(<<0>> \o s, width)

RECURSIVE Join(_)
Join(s) == IF s = <<>> THEN "" ELSE DigitChar[Head(s) + 1] \o Join(Tail(s))

RECURSIVE ExactFloorLog(_)
ExactFloorLog(n) == IF n < LogBase THEN 0 ELSE 1 + ExactFloorLog(n \div LogBase)

\* The arguments at which the double quotient log(n)/log(10) of math.log(n, 10)
\* lies just below the integer it stands for (2.9999999999999996 at 1000);
\* it is the only such n below 20000.
QuotientBelowInteger == {1000}

\* math.floor(math.log(n, 10)) for n > 0, in IEEE double arithmetic.
FloorLog(n) == IF n \in QuotientBelowInteger THEN ExactFloorLog(n) - 1 ELSE ExactFloorLog(n)

Order(num_samples) == FloorLog(num_samples) + 1

FileName(i, num_samples) == "synthetic" \o Join(Zfill(StrDigits(i), Order(num_samples))) \o ".vtk"

\* ------------------------------------------------------- numpy arrays
Array1(data) == [shape |-> <<Len(data)>>, data |-> data]

Array2(rows, cols, data) == [shape |-> <<rows, cols>>, data |-> data]

\* np.reshape(a, (-1, 3)): a ValueError unless the size is a multiple of 3.
CanReshape(a) == Len(a.data) % Dim = 0

Reshape(a) == Array2(Len(a.data) \div Dim, Dim, a.data)

\* a[r] of a two-dimensional array, r counted from 0.
Row(a, r) == [c \in 1..a.shape[2] |-> a.data[r * a.shape[2] + c]]

\* ------------------------------------------------- files of the input folder
\* SSM.h5 with C components of dimension D: component k moves coordinate
\* ((k-1) mod D)+1, the mean puts vertex v at (v, v, v), variances are squares.
ModelFile(C, D) ==
  [components |-> [k \in 1..C |-> [d \in 1..D |-> IF ((k - 1) % D) + 1 = d THEN 1 ELSE 0]],
   mean |-> [d \in 1..D |-> Real((d - 1) \div Dim)],
   explained_variance |-> [k \in 1..C |-> ((2 * k) % 3) * ((2 * k) % 3)]]

\* mean_shape.vtk with V vertices and its cells (lists of vertex indices).
TemplateFile(V) ==
  [points |-> [v \in 1..V |-> <<Real(1000 + v), Real(2000 + v), Real(3000 + v)>>],
   cells |-> <<[c \in 1..V |-> c - 1], <<V - 1, 0>>>>]

NoMesh == [points |-> <<>>, cells |-> <<>>]

\* The (C, D) of the model files considered: the small model and the full
\* 94-component model, consistent with the template (D = 3V), small models
\* whose dimension is short of, beyond, or no multiple of 3 against the
\* template, and a one-component model.
ModelShapes ==
  {<<SmallModelComponents, Dim * TemplateVertices>>,
   <<ComponentLimit - 1, Dim * TemplateVertices>>,
   <<SmallModelComponents, Dim * TemplateVertices - Dim>>,
   <<SmallModelComponents, Dim * TemplateVertices - 1>>,
   <<SmallModelComponents, Dim * TemplateVertices + Dim>>,
   <<1, Dim * TemplateVertices>>}

\* ------------------------------------------------------------ load_h5py
load_h5py(folder) == <<folder.h5.components, folder.h5.mean, folder.h5.explained_variance>>

load_mean_vtk(folder) == folder.mean_shape

\* a[:n] of a sequence.
Take(a, n) == SubSeq(a, 1, Min(n, Len(a)))

\* --------------------------------------------------------------- sample
\* One entry of np.random.normal(0, 1, (n, K)) under random state seed, in
\* fixed point: every value of -Real(MaxDraw)..Real(MaxDraw) occurs.
Draw(seed, r, j) == ((seed * 5 + r * 7 + j * 3) % (2 * Real(MaxDraw) + 1)) - Real(MaxDraw)

\* samples * np.sqrt(explained_variance) broadcasts iff the lengths agree or one is 1.
Broadcasts(K, L) == L = K \/ L = 1 \/ K = 1

sample_noSqrt(num_samples, num_components, explained_variance, boundary, seed) ==
  [r \in 1..num_samples |-> [j \in 1..num_components |->
     LET x == Draw(seed, r - 1, j)
         c == IF boundary # Real(Unbounded) THEN Clip(x, -boundary, boundary) ELSE x
         v == IF Len(explained_variance) = 1 THEN explained_variance[1] ELSE explained_variance[j]
     IN  c * v]]

sample(num_samples, num_components, explained_variance, boundary, seed) ==
  [r \in 1..num_samples |-> [j \in 1..num_components |->
     LET x == Draw(seed, r - 1, j)
         c == IF boundary # Real(Unbounded) THEN Clip(x, -boundary, boundary) ELSE x
         v == IF Len(explained_variance) = 1 THEN explained_variance[1] ELSE explained_variance[j]
     IN  c * Sqrt(v)]]

\* ------------------------------------------- samples @ components + mean
MatmulOk(samples, components) == \A r \in 1..Len(samples) : Len(samples[r]) = Len(components)

Reconstruct(samples, components, mean) ==
  [r \in 1..Len(samples) |-> [d \in 1..Len(mean) |->
     SumTo([k \in 1..Len(components) |-> samples[r][k] * components[k][d]], Len(components)) + mean[d]]]

\* --------------------------------------------------- pointcloud2surface
\* The array the loop indexes: reshaped to (-1, 3) unless already 2-D.
Shaped(pointcloud) == IF Len(pointcloud.shape) # 2 THEN Reshape(pointcloud) ELSE pointcloud

\* How many vertices the loop over range(GetNumberOfPoints()) overwrites before
\* it ends or pointcloud[pt_idx] / pt[2] raises IndexError.
Overwritten(a, n) == IF a.shape[2] < Dim THEN 0 ELSE Min(a.shape[1], n)

SetPoints_flat(points, a, count) ==
  [v \in 1..Len(points) |->
     IF v <= count THEN <<a.data[v], a.data[v + 1], a.data[v + 2]>> ELSE points[v]]

SetPoints(points, a, count) ==
  [v \in 1..Len(points) |->
     IF v <= count THEN <<Row(a, v - 1)[1], Row(a, v - 1)[2], Row(a, v - 1)[3]>> ELSE points[v]]

pointcloud2surface_rebuild(pointcloud, mesh) ==
  IF Len(pointcloud.shape) # 2 /\ ~CanReshape(pointcloud)
  THEN [outcome |-> "ValueError", mesh |-> mesh]
  ELSE LET a == Shaped(pointcloud)
           n == Len(mesh.points)
           count == Overwritten(a, n)
       IN  [outcome |-> IF count < n THEN "IndexError" ELSE "ok",
            mesh |-> [mesh EXCEPT !.points =
                        IF a.shape[2] < Dim THEN mesh.points
                        ELSE [v \in 1..a.shape[1] |-> <<Row(a, v - 1)[1], Row(a, v - 1)[2], Row(a, v - 1)[3]>>]]]

\* The outcome and the mesh object as the call leaves it; the mesh is the
\* caller's object, changed in place, also when the call raises.
pointcloud2surface(pointcloud, mesh) ==
  IF Len(pointcloud.shape) # 2 /\ ~CanReshape(pointcloud)
  THEN [outcome |-> "ValueError", mesh |-> mesh]
  ELSE LET a == Shaped(pointcloud)
           n == Len(mesh.points)
           count == Overwritten(a, n)
       IN  [outcome |-> IF count < n THEN "IndexError" ELSE "ok",
            mesh |-> [mesh EXCEPT !.points = SetPoints(mesh.points, a, count)]]

\* -------------------------------------------------------- write_vtk_file
\* Writing replaces a file of the same name.
write_vtk_file(files, unstructured_grid, file_name) ==
  {f \in files : f.name # file_name} \cup {[name |-> file_name, mesh |-> unstructured_grid]}

\* ================================================================ state
VARIABLES
  disk,                   \* input folder (exists, SSM.h5, mean_shape.vtk), output folder (exists, files)
  disk0,                  \* the disk as it was when generate_synthetic_mesh was called
  rng,                    \* numpy's process-wide random state, as the one draw of a call finds it
  args,                   \* num_samples, num_components, boundary of the call
  pc,                     \* position in generate_synthetic_mesh
  error,                  \* the error message printed, by kind
  result,                 \* the value returned
  exception,              \* the exception raised
  executed,               \* the steps of generate_synthetic_mesh run so far
  components, mean, explained_variance, mean_vtk,
  samples, synthetic_pointclouds, i,
  p2s,                    \* the last pointcloud2surface call: argument, mesh before, outcome
  direct_calls            \* pointcloud2surface calls made outside generate_synthetic_mesh

vars == <<disk, disk0, rng, args, pc, error, result, exception, executed, components, mean,
          explained_variance, mean_vtk, samples, synthetic_pointclouds, i, p2s, direct_calls>>

locals == <<components, mean, explained_variance, mean_vtk, samples, synthetic_pointclouds, i>>

\* ------------------------------------------------------------- inputs
NamingSamples == {10, 1000}

SampleInputs == (-1..MaxSamples) \cup NamingSamples

ComponentInputs ==
  {0, 1, SmallModelComponents, SmallModelComponents + 1, ComponentLimit - 1, ComponentLimit}

BoundaryInputs ==
  {Real(-2), Real(Unbounded), -1, 0, 1, Real(3), Real(BoundaryLimit), Real(BoundaryLimit) + 1}

PointcloudData(len, s) == [k \in 1..len |-> Real(s * 10 + k)]

\* Arguments of direct pointcloud2surface calls: flat arrays of V, V-1, V+1
\* points and of a length that is no multiple of 3, and 2-D arrays of V, V-1,
\* V+1 rows of 3 and of V rows of 2.
DirectPointclouds ==
  LET V == TemplateVertices IN
  UNION {{Array1(PointcloudData(Dim * V, s)),
          Array1(PointcloudData(Dim * V - Dim, s)),
          Array1(PointcloudData(Dim * V + Dim, s)),
          Array1(PointcloudData(Dim * V + 1, s)),
          Array2(V, Dim, PointcloudData(Dim * V, s)),
          Array2(V - 1, Dim, PointcloudData(Dim * V - Dim, s)),
          Array2(V + 1, Dim, PointcloudData(Dim * V + Dim, s)),
          Array2(V, 2, PointcloudData(2 * V, s))} : s \in 1..2}

NoCall == [called |-> FALSE, pointcloud |-> Array1(<<>>), before |-> NoMesh, outcome |-> "none"]

Init ==
  /\ \E in \in BOOLEAN, out \in BOOLEAN, m \in ModelShapes :
       disk = [input_exists |-> in,
               h5 |-> ModelFile(m[1], m[2]),
               mean_shape |-> TemplateFile(TemplateVertices),
               outdir_exists |-> out,
               files |-> {}]
  /\ disk0 = disk
  /\ rng \in 0..MaxSeed
  /\ args = [num_samples |-> 0, num_components |-> 0, boundary |-> 0]
  /\ pc = "idle"
  /\ error = "none"
  /\ result = "pending"
  /\ exception = "none"
  /\ executed = {}
  /\ components = <<>>
  /\ mean = <<>>
  /\ explained_variance = <<>>
  /\ mean_vtk = NoMesh
  /\ samples = <<>>
  /\ synthetic_pointclouds = <<>>
  /\ i = 0
  /\ p2s = NoCall
  /\ direct_calls = 0

\* ----------------------------------------------- generate_synthetic_mesh
\* The call: the arguments are bound.  Large sample counts are tried on the
\* small consistent model with one component.
Call ==
  /\ pc = "idle"
  /\ direct_calls = 0
  /\ \E n \in SampleInputs, K \in ComponentInputs, b \in BoundaryInputs :
       /\ n > MaxSamples =>
            /\ K = 1 /\ b = Real(Unbounded) /\ rng = 0 /\ disk.input_exists
            /\ disk.h5 = ModelFile(SmallModelComponents, Dim * TemplateVertices)
       /\ args' = [num_samples |-> n, num_components |-> K, boundary |-> b]
  /\ disk0' = disk
  /\ pc' = "check_input_path"
  /\ UNCHANGED <<disk, rng, error, result, exception, executed, locals, p2s, direct_calls>>

ReturnFalse(kind, step) ==
  /\ error' = kind
  /\ result' = "False"
  /\ pc' = "returned"
  /\ executed' = executed \cup {step}

Continue(next, step) ==
  /\ pc' = next
  /\ executed' = executed \cup {step}
  /\ UNCHANGED <<error, result>>

CheckInputPath_mkdirFirst ==
  /\ pc = "check_input_path"
  /\ disk' = [disk EXCEPT !.outdir_exists = TRUE]
  /\ IF ~disk.input_exists
       THEN ReturnFalse("PathNotFound", "check_input_path")
       ELSE Continue("check_output_path", "check_input_path")
  /\ UNCHANGED <<disk0, rng, args, exception, locals, p2s, direct_calls>>

CheckInputPath ==
  /\ pc = "check_input_path"
  /\ IF ~disk.input_exists
       THEN ReturnFalse("PathNotFound", "check_input_path")
       ELSE Continue("check_output_path", "check_input_path")
  /\ UNCHANGED <<disk, disk0, rng, args, exception, locals, p2s, direct_calls>>

MakeOutputDir ==
  /\ pc = "check_output_path"
  /\ disk' = IF ~disk.outdir_exists THEN [disk EXCEPT !.outdir_exists = TRUE] ELSE disk
  /\ Continue("check_num_samples", "check_output_path")
  /\ UNCHANGED <<disk0, rng, args, exception, locals, p2s, direct_calls>>

CheckNumSamples_noReturn ==
  /\ pc = "check_num_samples"
  /\ IF args.num_samples <= 0
       THEN /\ error' = "InvalidSampleCount"
            /\ pc' = "check_num_components"
            /\ executed' = executed \cup {"check_num_samples"}
            /\ UNCHANGED result
       ELSE Continue("check_num_components", "check_num_samples")
  /\ UNCHANGED <<disk, disk0, rng, args, exception, locals, p2s, direct_calls>>

CheckNumSamples ==
  /\ pc = "check_num_samples"
  /\ IF args.num_samples <= 0
       THEN ReturnFalse("InvalidSampleCount", "check_num_samples")
       ELSE Continue("check_num_components", "check_num_samples")
  /\ UNCHANGED <<disk, disk0, rng, args, exception, locals, p2s, direct_calls>>

CheckNumComponents_offByOne ==
  /\ pc = "check_num_components"
  /\ IF args.num_components > ComponentLimit \/ args.num_components <= 0
       THEN ReturnFalse("InvalidComponentCount", "check_num_components")
       ELSE Continue("check_boundary", "check_num_components")
  /\ UNCHANGED <<disk, disk0, rng, args, exception, locals, p2s, direct_calls>>

CheckNumComponents ==
  /\ pc = "check_num_components"
  /\ IF args.num_components >= ComponentLimit \/ args.num_components <= 0
       THEN ReturnFalse("InvalidComponentCount", "check_num_components")
       ELSE Continue("check_boundary", "check_num_components")
  /\ UNCHANGED <<disk, disk0, rng, args, exception, locals, p2s, direct_calls>>

CheckBoundary ==
  /\ pc = "check_boundary"
  /\ IF ~(Real(Unbounded) = args.boundary
          \/ (0 < args.boundary /\ args.boundary <= Real(BoundaryLimit)))
       THEN ReturnFalse("InvalidBoundary", "check_boundary")
       ELSE Continue("load", "check_boundary")
  /\ UNCHANGED <<disk, disk0, rng, args, exception, locals, p2s, direct_calls>>

Raise(kind, step) ==
  /\ exception' = kind
  /\ pc' = "raised"
  /\ executed' = executed \cup {step}
  /\ UNCHANGED <<error, result>>

\* Load the PCA parameters and the mean mesh, keep the first num_components.
LoadModel ==
  /\ pc = "load"
  /\ components' = Take(load_h5py(disk)[1], args.num_components)
  /\ mean' = load_h5py(disk)[2]
  /\ explained_variance' = Take(load_h5py(disk)[3], args.num_components)
  /\ mean_vtk' = load_mean_vtk(disk)
  /\ Continue("sample", "load")
  /\ UNCHANGED <<disk, disk0, rng, args, exception, samples, synthetic_pointclouds, i, p2s,
                 direct_calls>>

DrawSamples ==
  /\ pc = "sample"
  /\ IF Broadcasts(args.num_components, Len(explained_variance))
       THEN /\ samples' = sample(args.num_samples, args.num_components, explained_variance,
                                 args.boundary, rng)
            /\ Continue("reconstruct", "sample")
            /\ UNCHANGED exception
       ELSE /\ Raise("ValueError", "sample")
            /\ UNCHANGED samples
  /\ UNCHANGED <<disk, disk0, rng, args, components, mean, explained_variance, mean_vtk,
                 synthetic_pointclouds, i, p2s, direct_calls>>

ReconstructStep ==
  /\ pc = "reconstruct"
  /\ IF MatmulOk(samples, components)
       THEN /\ synthetic_pointclouds' = Reconstruct(samples, components, mean)
            /\ Continue("loop", "reconstruct")
            /\ UNCHANGED exception
       ELSE /\ Raise("ValueError", "reconstruct")
            /\ UNCHANGED synthetic_pointclouds
  /\ UNCHANGED <<disk, disk0, rng, args, components, mean, explained_variance, mean_vtk,
                 samples, i, p2s, direct_calls>>

\* Loop body, line 172: the mesh of sample i is built in the one mean_vtk object.
BuildMesh_prefetch ==
  /\ pc = "loop"
  /\ i < args.num_samples
  /\ LET r == pointcloud2surface(Array1(synthetic_pointclouds[i + 1]), mean_vtk)
         nxt == IF i + 1 < args.num_samples
                  THEN pointcloud2surface(Array1(synthetic_pointclouds[i + 2]), r.mesh)
                  ELSE r
     IN  /\ p2s' = [called |-> TRUE, pointcloud |-> Array1(synthetic_pointclouds[i + 1]),
                    before |-> mean_vtk, outcome |-> r.outcome]
         /\ mean_vtk' = nxt.mesh
         /\ IF r.outcome = "ok"
              THEN Continue("write", "build") /\ UNCHANGED exception
              ELSE Raise(r.outcome, "build")
  /\ UNCHANGED <<disk, disk0, rng, args, components, mean, explained_variance, samples,
                 synthetic_pointclouds, i, direct_calls>>

BuildMesh ==
  /\ pc = "loop"
  /\ i < args.num_samples
  /\ LET r == pointcloud2surface(Array1(synthetic_pointclouds[i + 1]), mean_vtk)
     IN  /\ p2s' = [called |-> TRUE, pointcloud |-> Array1(synthetic_pointclouds[i + 1]),
                    before |-> mean_vtk, outcome |-> r.outcome]
         /\ mean_vtk' = r.mesh
         /\ IF r.outcome = "ok"
              THEN Continue("write", "build") /\ UNCHANGED exception
              ELSE Raise(r.outcome, "build")
  /\ UNCHANGED <<disk, disk0, rng, args, components, mean, explained_variance, samples,
                 synthetic_pointclouds, i, direct_calls>>

\* Loop body, line 173: synthetic_surface is mean_vtk itself; the writer
\* stores its points and cells as they are now.
WriteMesh ==
  /\ pc = "write"
  /\ disk' = [disk EXCEPT !.files =
                write_vtk_file(disk.files, mean_vtk, FileName(i, args.num_samples))]
  /\ i' = i + 1
  /\ Continue("loop", "write")
  /\ UNCHANGED <<disk0, rng, args, exception, components, mean, explained_variance, mean_vtk,
                 samples, synthetic_pointclouds, p2s, direct_calls>>

\* The loop is exhausted and the function body ends: Python returns None.
ReturnNone ==
  /\ pc = "loop"
  /\ i >= args.num_samples
  /\ result' = "None"
  /\ pc' = "returned"
  /\ UNCHANGED <<disk, disk0, rng, args, error, exception, executed, locals, p2s, direct_calls>>

\* ------------------------------------- pointcloud2surface called directly
\* on the mesh object load_mean_vtk returned, again and again on that object.
DirectPointcloud2Surface ==
  /\ pc \in {"idle", "direct"}
  /\ disk.input_exists
  /\ direct_calls < MaxDirectCalls
  /\ \E pointcloud \in DirectPointclouds :
       LET mesh == IF pc = "idle" THEN load_mean_vtk(disk) ELSE mean_vtk
           r == pointcloud2surface(pointcloud, mesh)
       IN  /\ p2s' = [called |-> TRUE, pointcloud |-> pointcloud, before |-> mesh,
                      outcome |-> r.outcome]
           /\ mean_vtk' = r.mesh
           /\ exception' = IF r.outcome = "ok" THEN "none" ELSE r.outcome
  /\ pc' = "direct"
  /\ direct_calls' = direct_calls + 1
  /\ UNCHANGED <<disk, disk0, rng, args, error, result, executed, components, mean,
                 explained_variance, samples, synthetic_pointclouds, i>>

Next ==
  \/ Call
  \/ CheckInputPath
  \/ MakeOutputDir
  \/ CheckNumSamples
  \/ CheckNumComponents
  \/ CheckBoundary
  \/ LoadModel
  \/ DrawSamples
  \/ ReconstructStep
  \/ BuildMesh
  \/ WriteMesh
  \/ ReturnNone
  \/ DirectPointcloud2Surface

Spec == Init /\ [][Next]_vars

\* =============================================================== claims
ValidationSteps ==
  <<"check_input_path", "check_output_path", "check_num_samples", "check_num_components",
    "check_boundary">>

InValidation == pc \in {"check_input_path", "check_output_path", "check_num_samples",
                        "check_num_components", "check_boundary"}

Called == pc \notin {"idle", "direct"}

ValidationOver == Called /\ ~InValidation

ValidationFailed == pc = "returned" /\ result = "False"

InputMissing == ~disk0.input_exists

BadSamples == args.num_samples <= 0

BadComponents == ~(0 < args.num_components /\ args.num_components < ComponentLimit)

BadBoundary ==
  ~(args.boundary = Real(Unbounded) \/ (0 < args.boundary /\ args.boundary <= Real(BoundaryLimit)))

EarliestViolation ==
  IF InputMissing THEN "PathNotFound"
  ELSE IF BadSamples THEN "InvalidSampleCount"
  ELSE IF BadComponents THEN "InvalidComponentCount"
  ELSE IF BadBoundary THEN "InvalidBoundary"
  ELSE "none"

\* The steps run when the check at position k of ValidationSteps is the one that fails.
StepsThrough(k) == {ValidationSteps[m] : m \in 1..k}

StepsOfFailure(kind) ==
  IF kind = "PathNotFound" THEN StepsThrough(1)
  ELSE IF kind = "InvalidSampleCount" THEN StepsThrough(3)
  ELSE IF kind = "InvalidComponentCount" THEN StepsThrough(4)
  ELSE StepsThrough(5)

NothingLoaded ==
  /\ components = <<>> /\ mean = <<>> /\ explained_variance = <<>> /\ mean_vtk = NoMesh
  /\ samples = <<>> /\ synthetic_pointclouds = <<>> /\ i = 0 /\ ~p2s.called

ArgumentsValid == ~BadSamples /\ ~BadComponents /\ ~BadBoundary

Proceeded ==
  \/ pc \in {"load", "sample", "reconstruct", "loop", "write", "raised"}
  \/ pc = "returned" /\ result = "None"

\* C2: with an existing input path, validation passes and generation starts
\* iff num_samples > 0, 0 < num_components < 95 and boundary is -1 or in
\* (0, 5]; 0 and 95 components fail with InvalidComponentCount and 94 pass,
\* 0 samples fail with InvalidSampleCount, a boundary of 0, above 5 or negative
\* and not -1 fails with InvalidBoundary; a model with at least num_components
\* components gets through sampling and reconstruction.
C2_ValidationIffArgumentsValid ==
  ValidationOver /\ disk0.input_exists =>
    /\ Proceeded <=> ArgumentsValid
    /\ ~BadSamples /\ args.num_components \in {0, ComponentLimit} =>
         ValidationFailed /\ error = "InvalidComponentCount"
    /\ ~BadSamples /\ ~BadBoundary /\ args.num_components = ComponentLimit - 1 => Proceeded
    /\ args.num_samples = 0 => ValidationFailed /\ error = "InvalidSampleCount"
    /\ /\ ~BadSamples /\ ~BadComponents
       /\ args.boundary = 0 \/ args.boundary > Real(BoundaryLimit)
          \/ (args.boundary < 0 /\ args.boundary # Real(Unbounded))
       => ValidationFailed /\ error = "InvalidBoundary"
    /\ /\ ArgumentsValid /\ Len(disk.h5.components) >= args.num_components
       /\ pc \notin {"load", "sample", "reconstruct"}
       => "reconstruct" \in executed /\ Len(synthetic_pointclouds) = args.num_samples

\* C2 witness: 94 components on the 94-component model, every mesh written.
C2_Witness ==
  /\ args.num_components = ComponentLimit - 1
  /\ Len(disk.h5.components) = ComponentLimit - 1
  /\ pc = "returned" /\ result = "None"
  /\ Cardinality(disk.files) = args.num_samples

\* C3 as stated: a validation failure leaves the filesystem as it was before the call.
C3_FilesystemUnchangedOnFailure == ValidationFailed => disk = disk0

\* C3, amended: a validation failure leaves no mesh file written and the input
\* folder as it was; the only change it can leave is the output directory,
\* created when the input path exists and the directory was absent; when the
\* input path does not exist nothing at all is created.
C3_NoFileWrittenOnFailure ==
  ValidationFailed =>
    /\ disk.files = disk0.files
    /\ disk = [disk0 EXCEPT !.outdir_exists = disk.outdir_exists]
    /\ disk # disk0 => disk0.input_exists /\ ~disk0.outdir_exists /\ disk.outdir_exists
    /\ error = "PathNotFound" => disk = disk0

\* C3 witness: a rejected sample count after the output directory was created.
C3_Witness ==
  /\ ValidationFailed /\ error = "InvalidSampleCount"
  /\ ~disk0.outdir_exists /\ disk.outdir_exists

Succeeded == pc = "returned" /\ exception = "none" /\ error = "none"

\* The name the naming rule gives sample k of n: the index zero-padded to
\* floor(log10(n)) + 1 digits.
NameByRule(k, n) == "synthetic" \o Join(Zfill(StrDigits(k), ExactFloorLog(n) + 1)) \o ".vtk"

\* C4: a successful call with num_samples = n leaves exactly n files, one per
\* index 0..n-1, pairwise distinct, named synthetic<index zero-padded to
\* floor(log10(n)) + 1 digits>.vtk, the width being one per call and at least
\* the number of digits of n - 1.
C4_FileNames ==
  Succeeded =>
    /\ Cardinality(disk.files) = args.num_samples
    /\ {f.name : f \in disk.files} = {NameByRule(k, args.num_samples) : k \in 0..(args.num_samples - 1)}
    /\ ExactFloorLog(args.num_samples) + 1 >= Len(StrDigits(args.num_samples - 1))

\* Python's truth value of a returned value.
Truthy(value) == value \notin {"False", "None"}

\* C5: the call returns False when a validation fails and a true value when
\* all validations pass and every requested mesh has been written.
C5_SuccessFlag ==
  /\ ValidationFailed => ~Truthy(result)
  /\ Succeeded => Truthy(result)

Sampled == Called /\ "sample" \in executed /\ exception = "none"

\* C6: with explained_variance of length K and a boundary b other than -1,
\* every entry [r][j] of the matrix sample returns lies in
\* [-b*sqrt(var_j), b*sqrt(var_j)], a draw beyond b or -b landing on the end of
\* that interval (clipped, then scaled); with boundary -1 the entry is the
\* draw scaled, unclipped.
C6_SamplesWithinBoundary ==
  Sampled /\ Len(explained_variance) = args.num_components =>
    /\ Len(samples) = args.num_samples
    /\ \A r \in 1..Len(samples) :
         /\ Len(samples[r]) = args.num_components
         /\ \A j \in 1..Len(samples[r]) :
              LET s == Sqrt(explained_variance[j])
                  b == args.boundary
                  x == Draw(rng, r - 1, j)
              IN  IF b # Real(Unbounded)
                    THEN /\ -b * s <= samples[r][j] /\ samples[r][j] <= b * s
                         /\ x >= b => samples[r][j] = b * s
                         /\ x <= -b => samples[r][j] = -b * s
                    ELSE samples[r][j] = x * s

Abs(x) == IF x < 0 THEN -x ELSE x

\* C6 witness: a bounded call in which a draw beyond the boundary was clipped
\* in a column of positive variance, and one inside the boundary was kept.
C6_Witness ==
  /\ Sampled /\ Len(explained_variance) = args.num_components
  /\ args.boundary # Real(Unbounded)
  /\ \E r \in 1..Len(samples) : \E j \in 1..Len(samples[r]) :
       /\ Draw(rng, r - 1, j) > args.boundary
       /\ explained_variance[j] > 1
       /\ samples[r][j] = args.boundary * Sqrt(explained_variance[j])
  /\ \E r \in 1..Len(samples) : \E j \in 1..Len(samples[r]) :
       /\ Abs(Draw(rng, r - 1, j)) < args.boundary
       /\ samples[r][j] # 0

\* The number of points of a point cloud, when it has one.
IsFlat(a) == Len(a.shape) # 2

PointCount(a) == IF IsFlat(a) THEN Len(a.data) \div Dim ELSE a.shape[1]

ShapeMismatch(a, mesh) ==
  \/ IsFlat(a) /\ Len(a.data) % Dim # 0
  \/ PointCount(a) # Len(mesh.points)

ExactlyVPoints(a, mesh) ==
  /\ IsFlat(a) => Len(a.data) = Dim * Len(mesh.points)
  /\ ~IsFlat(a) => a.shape = <<Len(mesh.points), Dim>>

\* C7: for a point cloud whose flat length is no multiple of 3, or whose
\* vertex count differs from the template's (more or fewer), the call fails
\* with an error and overwrites no vertex.
C7_ShapeErrorFailsFast ==
  p2s.called /\ ShapeMismatch(p2s.pointcloud, p2s.before) =>
    /\ p2s.outcome # "ok"
    /\ mean_vtk.points = p2s.before.points

\* C8: for a point cloud of exactly V points, flat of length 3V or shaped
\* V x 3, the call succeeds and vertex i of the returned mesh is
\* (pointcloud[3i], pointcloud[3i+1], pointcloud[3i+2]) for every i in [0, V).
C8_VertexEqualsPointcloud ==
  p2s.called /\ ExactlyVPoints(p2s.pointcloud, p2s.before) =>
    /\ p2s.outcome = "ok"
    /\ Len(mean_vtk.points) = Len(p2s.before.points)
    /\ \A v \in 0..(Len(mean_vtk.points) - 1) :
         mean_vtk.points[v + 1] = <<p2s.pointcloud.data[3 * v + 1],
                                    p2s.pointcloud.data[3 * v + 2],
                                    p2s.pointcloud.data[3 * v + 3]>>

\* C8 witness: the mesh of the second sample has been built from a flat point
\* cloud of 3V coordinates, over the first sample's coordinates, no vertex
\* keeping a template position, and awaits writing.
C8_Witness ==
  /\ pc = "write" /\ i = 1
  /\ p2s.called /\ IsFlat(p2s.pointcloud) /\ ExactlyVPoints(p2s.pointcloud, p2s.before)
  /\ p2s.before.points # disk.mean_shape.points
  /\ mean_vtk.points # p2s.before.points
  /\ \A v \in 1..Len(mean_vtk.points) : mean_vtk.points[v] # disk.mean_shape.points[v]

\* C9: whatever pointcloud2surface calls were made, the mesh object and every
\* mesh written have the template's vertex count and cell lists as loaded.
C9_ConnectivityPreserved ==
  /\ mean_vtk # NoMesh =>
       /\ mean_vtk.cells = disk.mean_shape.cells
       /\ Len(mean_vtk.points) = Len(disk.mean_shape.points)
  /\ \A f \in disk.files :
       /\ f.mesh.cells = disk.mean_shape.cells
       /\ Len(f.mesh.points) = Len(disk.mean_shape.points)

\* C9 witness: a point cloud of more points than the template has been put
\* into the mesh and written, coordinates changed.
C9_Witness ==
  /\ Len(disk.h5.mean) > Dim * Len(disk.mean_shape.points)
  /\ pc = "returned" /\ result = "None"
  /\ Cardinality(disk.files) = args.num_samples
  /\ \A f \in disk.files : f.mesh.points # disk.mean_shape.points

\* The first V points of reconstructed point cloud k (counted from 0).
PointsOfSample(k, V) ==
  [v \in 1..V |-> <<synthetic_pointclouds[k + 1][3 * v - 2],
                    synthetic_pointclouds[k + 1][3 * v - 1],
                    synthetic_pointclouds[k + 1][3 * v]>>]

\* The file the writer leaves for sample k: its name and the mesh with point
\* cloud k in all V vertices.
FileOfSample(k) ==
  [name |-> FileName(k, args.num_samples),
   mesh |-> [points |-> PointsOfSample(k, Len(disk.mean_shape.points)),
             cells |-> disk.mean_shape.cells]]

\* C10: samples are processed one after the other: when sample i is built or
\* written, exactly the files of samples 0..i-1 exist, and the file of each
\* sample k holds point cloud k in all V vertices, whatever was built since.
C10_FileHoldsItsOwnSample ==
  Called /\ "reconstruct" \in executed =>
    /\ disk.files = {FileOfSample(k) : k \in 0..(i - 1)}
    /\ Cardinality(disk.files) = i
    /\ pc = "write" => mean_vtk.points = PointsOfSample(i, Len(disk.mean_shape.points))

\* C10 witness: two samples with different point clouds, both written.
C10_Witness ==
  /\ pc = "returned" /\ result = "None" /\ args.num_samples = 2
  /\ Len(disk.h5.mean) = Dim * Len(disk.mean_shape.points)
  /\ synthetic_pointclouds[1] # synthetic_pointclouds[2]
  /\ Cardinality(disk.files) = 2

====
